---- MODULE Spec2Model ----
(***************************************************************************)
(* The KMS backend of libgbm (src/backend_kms.c, src/gbm_kmsint.h): buffer *)
(* objects (BOs) kept in a heap of struct gbm_kms_bo, and one              *)
(* double-buffered surface.  External collaborators (libkms, the DRM prime *)
(* ioctls, calloc) are nondeterministic: each call may succeed or fail.    *)
(***************************************************************************)
EXTENDS Integers, Sequences, FiniteSets, TLC

\* ------------------------------------------------------------------ bounds
MaxBO == 2          \* structs that bo_create and bo_import can allocate
MaxAttach == 3      \* structs that set_bo can allocate
MaxMapRef == 2      \* map_ref is not raised beyond this
MaxOpen == 2        \* allocator-driver instances that kms_create can make

\* --------------------------------------------------------- program constants
GBM_BO_FORMAT_XRGB8888 == 0
GBM_BO_FORMAT_ARGB8888 == 1
GBM_FORMAT_XRGB8888 == 875713112
GBM_FORMAT_ARGB8888 == 875713089
GBM_FORMAT_RGB565 == 909199186
GBM_BO_USE_CURSOR == 2
GBM_BO_USE_WRITE == 8
MAX_PLANES == 3
GBM_BO_IMPORT_WL_BUFFER == 21761
GBM_BO_IMPORT_EGL_IMAGE == 21762
GBM_BO_IMPORT_FD == 21763
GBM_BO_IMPORT_FD_MODIFIER == 21764

NULL == 0

\* ------------------------------------------------------------------ inputs
BoIds == 1..MaxBO
AttachIds == (MaxBO + 1)..(MaxBO + MaxAttach)
AllIds == BoIds \cup AttachIds
Formats == {GBM_BO_FORMAT_XRGB8888, GBM_BO_FORMAT_ARGB8888,
            GBM_FORMAT_XRGB8888, GBM_FORMAT_ARGB8888, GBM_FORMAT_RGB565}
Usages == {0, GBM_BO_USE_CURSOR + GBM_BO_USE_WRITE}
CreateFormats == {GBM_BO_FORMAT_XRGB8888, GBM_FORMAT_XRGB8888, GBM_FORMAT_RGB565}
\* the call of a BO creation that fails, if any
FailPoints == {"none", "calloc", "kms_bo_create", "drmPrimeHandleToFD", "kms_bo_map"}
Widths == {1}
Heights == {2}
Pitches == {2}                 \* KMS_PITCH reported by the allocator
ProducerFds == {7}             \* descriptors a producer holds and hands to set_bo
\* set_bo arguments <<addr, fd, stride>>: detach only, and a rendered buffer
AttachArgs == {<<NULL, -1, 0>>, <<9, 7, 2>>}
Bytes == {1}                   \* byte values a caller writes; fresh memory is 0

VARIABLES
    heap,       \* AllIds -> struct gbm_kms_bo, with its allocation state st
    surface,    \* struct gbm_kms_surface, with its allocation state st
    kernel,     \* kernel buffers (struct kms_bo) that exist, named by their BO
    kmapped,    \* kernel buffers the allocator currently has mapped
    fds,        \* descriptors that are open
    pc,         \* "run", or "crashed" once the process has been killed
    dev,        \* struct gbm_kms_device, and what it holds of the allocator
    ev          \* the last call: its name, arguments, result, external calls

vars == <<heap, surface, kernel, kmapped, fds, pc, dev, ev>>

\* ----------------------------------------------------------------- helpers
Bit(usage, flag) == (usage \div flag) % 2 = 1

Count(s, x) == Cardinality({i \in DOMAIN s : s[i] = x})

Zeros(n) == [i \in 1..n |-> 0]

NoPlanes == [i \in 0..(MAX_PLANES - 1) |-> [handle |-> 0, stride |-> 0]]

\* calloc(1, sizeof(struct gbm_kms_bo)): every field zero
ZeroBo ==
    [st |-> "live", width |-> 0, height |-> 0, format |-> 0, stride |-> 0,
     handle |-> 0, bo |-> NULL, addr |-> NULL, map_ref |-> 0, fd |-> 0,
     locked |-> 0, size |-> 0, allocated |-> FALSE, num_planes |-> 0,
     planes |-> NoPlanes, mem |-> <<>>]

NoBo == [ZeroBo EXCEPT !.st = "none"]

\* a struct after free(): what its memory holds is no longer defined, so every
\* read of it is a choice made at the read
FreedBo == [ZeroBo EXCEPT !.st = "freed"]

\* the next struct calloc returns out of ids; freed structs are not handed out
\* again, so that a dangling pointer stays distinguishable
FreshIn(ids) == {b \in ids : heap[b].st = "none" /\ \A c \in ids : c < b => heap[c].st # "none"}
Fresh == FreshIn(BoIds)
FreshAttach == FreshIn(AttachIds)

Live == {b \in AllIds : heap[b].st = "live"}
Freed == {b \in AllIds : heap[b].st = "freed"}

\* kernel handle, exported descriptor and mapping address of kernel buffer k;
\* descriptors 0, 1 and 2 are the process's open standard streams, so the
\* kernel hands out descriptors above 2 (the code takes fd = 0 for "no fd")
HandleOf(k) == 10 + k
FdOf(k) == 2 + k
AddrOf(k) == 20 + k

Ev(op, bo, arg, ret, err, calls) ==
    [op |-> op, bo |-> bo, arg |-> arg, ret |-> ret, err |-> err, calls |-> calls]

\* a variant of gbm_format_canonicalize that maps no alias
canonicalize_identity(gbm_format) == gbm_format

gbm_format_canonicalize(gbm_format) ==
    CASE gbm_format = GBM_BO_FORMAT_XRGB8888 -> GBM_FORMAT_XRGB8888
      [] gbm_format = GBM_BO_FORMAT_ARGB8888 -> GBM_FORMAT_ARGB8888
      [] OTHER -> gbm_format

gbm_kms_is_format_supported(format, usage) ==
    gbm_format_canonicalize(format) \in {GBM_FORMAT_ARGB8888, GBM_FORMAT_XRGB8888}

\* ------------------------------------------------------------- map_ref/unref
\* gbm_kms_bo_map_ref: the record after the call; ok = kms_bo_map succeeded
gbm_kms_bo_map_ref(r, ok) ==
    IF r.map_ref = 0 /\ ~ok THEN r
    ELSE [r EXCEPT !.map_ref = r.map_ref + 1,
                   !.addr = IF r.map_ref = 0 THEN AddrOf(r.bo) ELSE r.addr]

map_ref_calls(r) == IF r.map_ref = 0 THEN <<"kms_bo_map">> ELSE <<>>

\* a variant without the count: the first unmap drops the mapping
map_unref_uncounted(r) ==
    IF r.addr = NULL THEN r ELSE [r EXCEPT !.map_ref = 0, !.addr = NULL]

gbm_kms_bo_map_unref(r) ==
    IF r.addr = NULL THEN r
    ELSE IF r.map_ref - 1 = 0
         THEN [r EXCEPT !.map_ref = 0, !.addr = NULL]
         ELSE [r EXCEPT !.map_ref = r.map_ref - 1]

map_unref_calls(r) ==
    IF r.addr # NULL /\ r.map_ref - 1 = 0 THEN <<"kms_bo_unmap">> ELSE <<>>

\* ------------------------------------------------------------------ destroy
\* a variant that forgets the kernel buffer
destroy_calls_leak(r) ==
    (IF r.allocated
     THEN (IF r.addr # NULL THEN <<"kms_bo_unmap">> ELSE <<>>)
          \o (IF r.fd # 0 THEN <<"close">> ELSE <<>>)
     ELSE <<>>)
    \o <<"free">>

\* a variant that releases whatever the struct names, owner or not
destroy_calls_unconditional(r) ==
    (IF r.addr # NULL THEN <<"kms_bo_unmap">> ELSE <<>>)
    \o (IF r.fd # 0 THEN <<"close">> ELSE <<>>)
    \o (IF r.bo # NULL THEN <<"kms_bo_destroy">> ELSE <<>>)
    \o <<"free">>

\* the external calls gbm_kms_bo_destroy makes on a struct with fields r
gbm_kms_bo_destroy_calls(r) ==
    (IF r.allocated
     THEN (IF r.addr # NULL THEN <<"kms_bo_unmap">> ELSE <<>>)
          \o (IF r.fd # 0 THEN <<"close">> ELSE <<>>)
          \o (IF r.bo # NULL THEN <<"kms_bo_destroy">> ELSE <<>>)
     ELSE <<>>)
    \o <<"free">>

Has(calls, x) == \E i \in DOMAIN calls : calls[i] = x

\* what the calls of a destroy leave of the kernel buffers, mappings, descriptors
KernelAfter(r, calls, ks) == IF Has(calls, "kms_bo_destroy") THEN ks \ {r.bo} ELSE ks
KmappedAfter(r, calls, ms) ==
    IF Has(calls, "kms_bo_unmap") \/ Has(calls, "kms_bo_destroy") THEN ms \ {r.bo} ELSE ms
FdsAfter(r, calls, fs) == IF Has(calls, "close") THEN fs \ {r.fd} ELSE fs

NoSurface ==
    [st |-> "none", bo |-> [n \in 0..1 |-> NULL], front |-> 0,
     width |-> 0, height |-> 0, format |-> 0]

\* struct gbm_kms_device before kms_device_create: fd_open tells whether the
\* caller's display descriptor is open, kms counts the allocator-driver
\* instances (struct kms_driver) that exist
NoDev == [st |-> "none", fd |-> 0, fd_open |-> TRUE, kms |-> 0]

\* the device kms_device_create(fd) returns
OpenDev(fd) == [st |-> "open", fd |-> fd, fd_open |-> TRUE, kms |-> 1]

DisplayFds == {5}

\* before the backend is loaded: no device yet
InitDev ==
    /\ heap = [b \in AllIds |-> NoBo]
    /\ surface = NoSurface
    /\ kernel = {}
    /\ kmapped = {}
    /\ fds = ProducerFds
    /\ pc = "run"
    /\ dev = NoDev
    /\ ev = Ev("init", NULL, 0, 0, "none", <<>>)

\* after kms_device_create has returned a device
Init ==
    /\ heap = [b \in AllIds |-> NoBo]
    /\ surface = NoSurface
    /\ kernel = {}
    /\ kmapped = {}
    /\ fds = ProducerFds
    /\ pc = "run"
    /\ dev \in {OpenDev(fd) : fd \in DisplayFds}
    /\ ev = Ev("init", NULL, 0, 0, "none", <<>>)

\* ------------------------------------------------------------------- device
kms_device_create(fd, callocOk, kmsOk) ==
    /\ pc = "run"
    /\ dev.st # "open"
    /\ dev.kms < MaxOpen
    /\ UNCHANGED <<heap, surface, kernel, kmapped, fds, pc>>
    /\ IF ~callocOk
       THEN /\ UNCHANGED dev
            /\ ev' = Ev("device_create", NULL, fd, NULL, "ENOMEM", <<"calloc">>)
       ELSE IF ~kmsOk
       THEN /\ UNCHANGED dev
            /\ ev' = Ev("device_create", NULL, fd, NULL, "EKMS",
                        <<"calloc", "kms_create", "free">>)
       ELSE /\ dev' = [dev EXCEPT !.st = "open", !.fd = fd, !.kms = dev.kms + 1]
            /\ ev' = Ev("device_create", NULL, fd, 1, "none", <<"calloc", "kms_create">>)

\* gbm_kms_destroy: free(gbm) and nothing else
gbm_kms_destroy ==
    /\ pc = "run"
    /\ dev.st = "open"
    /\ dev' = [dev EXCEPT !.st = "closed"]
    /\ UNCHANGED <<heap, surface, kernel, kmapped, fds, pc>>
    /\ ev' = Ev("device_destroy", NULL, 0, 0, "none", <<"free">>)

\* the gbm_device entry is_format_supported, as a call
IsFormatSupported(format, usage) ==
    /\ pc = "run"
    /\ dev.st = "open"
    /\ UNCHANGED <<heap, surface, kernel, kmapped, fds, pc, dev>>
    /\ ev' = Ev("is_format_supported", NULL, [format |-> format, usage |-> usage],
                IF gbm_kms_is_format_supported(format, usage) THEN 1 ELSE 0, "none", <<>>)

\* ------------------------------------------------------------------- create
\* a variant that never marks the struct as the owner of its kernel buffer
CreateFill_unowned(b, width, height, fourcc, pitch) ==
    [ZeroBo EXCEPT !.bo = b, !.width = width, !.height = height,
                   !.format = fourcc, !.handle = HandleOf(b), !.stride = pitch,
                   !.size = pitch * height, !.num_planes = 1,
                   !.mem = Zeros(pitch * height)]

\* the struct as gbm_kms_bo_create has filled it after kms_bo_create succeeded
CreateFill(b, width, height, fourcc, pitch) ==
    [ZeroBo EXCEPT !.bo = b, !.width = width, !.height = height,
                   !.format = fourcc, !.handle = HandleOf(b), !.stride = pitch,
                   !.size = pitch * height, !.num_planes = 1,
                   !.allocated = TRUE, !.mem = Zeros(pitch * height)]

\* the error label of gbm_kms_bo_create: gbm_kms_bo_destroy on the struct as
\* filled so far (r), after the calls made so far; made: resources created
CreateError(r, format, usage, err, calls, mk, mf) ==
    LET d == gbm_kms_bo_destroy_calls(r) IN
    /\ heap' = heap
    /\ kernel' = KernelAfter(r, d, kernel \cup mk)
    /\ kmapped' = KmappedAfter(r, d, kmapped)
    /\ fds' = FdsAfter(r, d, fds \cup mf)
    /\ ev' = Ev("bo_create", NULL, [format |-> format, usage |-> usage], NULL, err, calls \o d)

gbm_kms_bo_create(width, height, format, usage, pitch, fail) ==
    /\ pc = "run"
    /\ dev.st = "open"
    /\ UNCHANGED dev
    /\ UNCHANGED <<surface, pc>>
    /\ IF fail = "calloc" \/ Fresh = {}
       THEN /\ UNCHANGED <<heap, kernel, kmapped, fds>>
            /\ ev' = Ev("bo_create", NULL, [format |-> format, usage |-> usage], NULL, "ENOMEM", <<"calloc">>)
       ELSE
       LET b == CHOOSE x \in Fresh : TRUE
           fourcc == gbm_format_canonicalize(format)
           write == Bit(usage, GBM_BO_USE_WRITE)
           r1 == CreateFill(b, width, height, fourcc, pitch)
           r2 == [r1 EXCEPT !.fd = FdOf(b)]
           r3 == IF write THEN gbm_kms_bo_map_ref(r2, fail # "kms_bo_map") ELSE r2
           c1 == <<"calloc">>
           c2 == c1 \o <<"kms_bo_create">>
           c3 == c2 \o <<"drmPrimeHandleToFD">>
           c4 == c3 \o (IF write THEN map_ref_calls(r2) ELSE <<>>)
       IN
       IF fourcc \notin {GBM_FORMAT_ARGB8888, GBM_FORMAT_XRGB8888}
       THEN CreateError(ZeroBo, format, usage, "EINVAL", c1, {}, {})
       ELSE IF fail = "kms_bo_create"
       THEN CreateError(ZeroBo, format, usage, "EKMS", c2, {}, {})
       ELSE IF fail = "drmPrimeHandleToFD"
       THEN CreateError(r1, format, usage, "EPRIME", c3, {b}, {})
       ELSE IF write /\ fail = "kms_bo_map"
       THEN CreateError(r2, format, usage, "EKMS", c4, {b}, {FdOf(b)})
       ELSE /\ heap' = [heap EXCEPT ![b] = r3]
            /\ kernel' = kernel \cup {b}
            /\ fds' = fds \cup {FdOf(b)}
            /\ kmapped' = IF r3.addr # NULL THEN kmapped \cup {b} ELSE kmapped
            /\ ev' = Ev("bo_create", b, [format |-> format, usage |-> usage], b, "none", c4)

\* ------------------------------------------------------------ map/unmap/write
\* a variant that looks at the origin of the requested rectangle only
MapRejects_originOnly(r, x, y, width, height) == x # 0 \/ y # 0

\* gbm_kms_bo_map maps the whole buffer or nothing
MapRejects(r, x, y, width, height) ==
    x # 0 \/ y # 0 \/ width # r.width \/ height # r.height

\* gbm_kms_bo_unmap ignores a pointer that is not the BO's mapping
UnmapRejects(r, map_data) == map_data = NULL \/ map_data # r.addr

gbm_kms_bo_map(b, x, y, width, height, mapOk) ==
    /\ pc = "run"
    /\ dev.st = "open"
    /\ UNCHANGED dev
    /\ b \in Live
    /\ heap[b].map_ref < MaxMapRef
    /\ UNCHANGED <<surface, kernel, fds>>
    /\ LET r == heap[b]
           rect == [x |-> x, y |-> y, width |-> width, height |-> height]
       IN
       IF MapRejects(r, x, y, width, height)
       THEN /\ UNCHANGED <<heap, kmapped, pc>>
            /\ ev' = Ev("bo_map", b, rect, NULL, "EINVAL", <<>>)
       ELSE IF r.map_ref = 0 /\ r.bo = NULL
       THEN \* kms_bo_map(NULL, ...) dereferences its argument
            /\ UNCHANGED <<heap, kmapped>>
            /\ pc' = "crashed"
            /\ ev' = Ev("bo_map", b, rect, NULL, "SIGSEGV", <<"kms_bo_map">>)
       ELSE LET r1 == gbm_kms_bo_map_ref(r, mapOk)
                failed == r.map_ref = 0 /\ ~mapOk
            IN /\ heap' = [heap EXCEPT ![b] = r1]
               /\ kmapped' = IF r.map_ref = 0 /\ mapOk THEN kmapped \cup {r.bo} ELSE kmapped
               /\ UNCHANGED pc
               /\ ev' = Ev("bo_map", b, rect,
                           IF failed THEN NULL ELSE r1.addr,
                           IF failed THEN "EKMS" ELSE "none", map_ref_calls(r))

gbm_kms_bo_unmap(b, map_data) ==
    /\ pc = "run"
    /\ dev.st = "open"
    /\ UNCHANGED dev
    /\ b \in Live
    /\ heap[b].map_ref > -MaxMapRef
    /\ UNCHANGED <<surface, kernel, fds, pc>>
    /\ LET r == heap[b] IN
       IF UnmapRejects(r, map_data)
       THEN /\ UNCHANGED <<heap, kmapped>>
            /\ ev' = Ev("bo_unmap", b, map_data, 0, "none", <<>>)
       ELSE /\ heap' = [heap EXCEPT ![b] = gbm_kms_bo_map_unref(r)]
            /\ kmapped' = IF Has(map_unref_calls(r), "kms_bo_unmap")
                          THEN kmapped \ {r.bo} ELSE kmapped
            /\ ev' = Ev("bo_unmap", b, map_data, 0, "none", map_unref_calls(r))

\* memcpy(bo->addr, buf, count): the mapped region after the copy
Memcpy(mem, buf) == [i \in DOMAIN mem |-> IF i <= Len(buf) THEN buf[i] ELSE mem[i]]

\* a variant that rejects a copy of exactly size bytes
WriteStatus_offByOne(r, count) ==
    IF r.addr = NULL THEN "EFAULT"
    ELSE IF count >= r.size THEN "EINVAL"
    ELSE "none"

\* the checks of gbm_kms_bo_write on a copy of count bytes: the errno it sets
WriteStatus(r, count) ==
    IF r.addr = NULL THEN "EFAULT"
    ELSE IF count > r.size THEN "EINVAL"
    ELSE "none"

gbm_kms_bo_write(b, buf) ==
    /\ pc = "run"
    /\ dev.st = "open"
    /\ UNCHANGED dev
    /\ b \in Live
    /\ UNCHANGED <<surface, kernel, kmapped, fds, pc>>
    /\ LET r == heap[b]
           err == WriteStatus(r, Len(buf))
       IN
       IF err # "none"
       THEN /\ UNCHANGED heap
            /\ ev' = Ev("bo_write", b, buf, -1, err, <<>>)
       ELSE /\ heap' = [heap EXCEPT ![b].mem = Memcpy(r.mem, buf)]
            /\ ev' = Ev("bo_write", b, buf, 0, "none", <<"memcpy">>)

\* ---------------------------------------------------------------- accessors
\* is plane outside [0, num_planes)
PlaneOutOfRange(r, plane) == plane < 0 \/ r.num_planes <= plane

gbm_kms_bo_get_stride(b, plane) ==
    /\ pc = "run"
    /\ dev.st = "open"
    /\ b \in Live
    /\ UNCHANGED <<heap, surface, kernel, kmapped, fds, pc, dev>>
    /\ LET r == heap[b] IN
       IF PlaneOutOfRange(r, plane)
       THEN ev' = Ev("get_stride", b, plane, 0, "EINVAL", <<>>)
       ELSE ev' = Ev("get_stride", b, plane,
                     IF r.num_planes = 1 THEN r.stride ELSE r.planes[plane].stride,
                     "none", <<>>)

\* gbm_kms_bo_get_offset looks at neither the BO nor the plane
gbm_kms_bo_get_offset(b, plane) ==
    /\ pc = "run"
    /\ dev.st = "open"
    /\ b \in Live
    /\ UNCHANGED <<heap, surface, kernel, kmapped, fds, pc, dev>>
    /\ ev' = Ev("get_offset", b, plane, 0, "none", <<>>)

gbm_kms_bo_get_handle(b, plane) ==
    /\ pc = "run"
    /\ dev.st = "open"
    /\ b \in Live
    /\ UNCHANGED <<heap, surface, kernel, kmapped, fds, pc, dev>>
    /\ LET r == heap[b] IN
       IF PlaneOutOfRange(r, plane)
       THEN ev' = Ev("get_handle", b, plane, -1, "EINVAL", <<>>)
       ELSE ev' = Ev("get_handle", b, plane,
                     IF r.num_planes = 1 THEN r.handle ELSE r.planes[plane].handle,
                     "none", <<>>)

\* plane arguments: below, inside and beyond every plane count
Planes == -1..MAX_PLANES

\* -------------------------------------------------------------- bo_destroy
\* b is NULL, a live struct, or a struct already freed (a dangling pointer).
\* On a dangling pointer the fields read are whatever the freed memory holds
\* (rd: the values read), and free() runs a second time, which the allocator
\* either detects (abort) or does not.
gbm_kms_bo_destroy(b, rd, abort) ==
    /\ pc = "run"
    /\ dev.st = "open"
    /\ UNCHANGED dev
    /\ b \in {NULL} \cup Live \cup Freed
    /\ UNCHANGED surface
    /\ IF b = NULL
       THEN /\ UNCHANGED <<heap, kernel, kmapped, fds, pc>>
            /\ ev' = Ev("bo_destroy", NULL, "null", 0, "none", <<>>)
       ELSE
       LET live == heap[b].st = "live"
           r == IF live THEN heap[b] ELSE rd
           d == gbm_kms_bo_destroy_calls(r)
       IN /\ heap' = [heap EXCEPT ![b] = FreedBo]
          /\ kernel' = IF live THEN KernelAfter(r, d, kernel) ELSE kernel
          /\ kmapped' = IF live THEN KmappedAfter(r, d, kmapped) ELSE kmapped
          /\ fds' = IF live THEN FdsAfter(r, d, fds) ELSE fds
          /\ pc' = IF ~live /\ abort THEN "crashed" ELSE "run"
          /\ ev' = Ev("bo_destroy", b, IF live THEN "live" ELSE "freed", 0, "none", d)

\* what a read of a freed struct can return for the fields destroy looks at
StaleReads ==
    {[ZeroBo EXCEPT !.allocated = a, !.addr = m, !.fd = f, !.bo = k] :
        a \in BOOLEAN, m \in {NULL, 9}, f \in {0}, k \in {NULL, 1}}

WriteBufs(size) == {[i \in 1..n |-> v] : n \in {1, size, size + 1}, v \in Bytes}

\* ------------------------------------------------------------------- import
\* handle drmPrimeFDToHandle returns for a descriptor
HandleOfFd(fd) == 50 + fd

\* gbm_kms_import_wl_buffer: the struct built from the descriptor
\* wayland_kms_buffer_get returned
gbm_kms_import_wl_buffer(buffer) ==
    LET inRange == buffer.num_planes > 0 /\ buffer.num_planes <= MAX_PLANES IN
    [ZeroBo EXCEPT !.width = buffer.width, !.height = buffer.height,
                   !.format = buffer.format, !.stride = buffer.stride,
                   !.handle = buffer.handle,
                   !.num_planes = IF inRange THEN buffer.num_planes ELSE 1,
                   !.planes = IF inRange
                              THEN [i \in 0..(MAX_PLANES - 1) |->
                                       IF i < buffer.num_planes
                                       THEN buffer.planes[i] ELSE NoPlanes[i]]
                              ELSE NoPlanes]

gbm_kms_import_fd(fd_data) ==
    [ZeroBo EXCEPT !.width = fd_data.width, !.height = fd_data.height,
                   !.format = gbm_format_canonicalize(fd_data.format),
                   !.stride = fd_data.stride, !.handle = HandleOfFd(fd_data.fd),
                   !.num_planes = 1]

\* a variant that records the first plane only
import_fd_modifier_firstPlane(fd_data) ==
    [ZeroBo EXCEPT !.width = fd_data.width, !.height = fd_data.height,
                   !.format = gbm_format_canonicalize(fd_data.format),
                   !.stride = fd_data.strides[1],
                   !.handle = HandleOfFd(fd_data.fds[1]),
                   !.num_planes = fd_data.num_fds,
                   !.planes = [NoPlanes EXCEPT ![0] =
                                  [handle |-> HandleOfFd(fd_data.fds[1]),
                                   stride |-> fd_data.strides[1]]]]

gbm_kms_import_fd_modifier(fd_data) ==
    [ZeroBo EXCEPT !.width = fd_data.width, !.height = fd_data.height,
                   !.format = gbm_format_canonicalize(fd_data.format),
                   !.stride = fd_data.strides[1],
                   !.handle = HandleOfFd(fd_data.fds[1]),
                   !.num_planes = fd_data.num_fds,
                   !.planes = [i \in 0..(MAX_PLANES - 1) |->
                                  IF i < fd_data.num_fds
                                  THEN [handle |-> HandleOfFd(fd_data.fds[i + 1]),
                                        stride |-> fd_data.strides[i + 1]]
                                  ELSE NoPlanes[i]]]

\* gbm_kms_bo_import.  buffer.resolved is FALSE when wayland_kms_buffer_get
\* finds no descriptor for the resource; failAt is the first drmPrimeFDToHandle that fails (0: none).
gbm_kms_bo_import(type, buffer, failAt, callocOk) ==
    /\ pc = "run"
    /\ dev.st = "open"
    /\ UNCHANGED dev
    /\ UNCHANGED <<surface, kernel, kmapped, fds, pc>>
    /\ LET early ==
             CASE type = GBM_BO_IMPORT_WL_BUFFER ->
                    IF ~buffer.resolved THEN "EINVAL" ELSE "none"
               [] type = GBM_BO_IMPORT_FD ->
                    IF failAt # 0 THEN "EPRIME" ELSE "none"
               [] type = GBM_BO_IMPORT_FD_MODIFIER ->
                    IF buffer.modifier # "DRM_FORMAT_MOD_INVALID" THEN "EINVAL"
                    ELSE IF buffer.num_fds <= 0 \/ MAX_PLANES < buffer.num_fds THEN "EINVAL"
                    ELSE IF failAt \in 1..buffer.num_fds THEN "EPRIME"
                    ELSE "none"
               [] OTHER -> "EINVAL"
           arg == [type |-> type, data |-> buffer, failAt |-> failAt]
       IN
       IF early # "none"
       THEN /\ UNCHANGED heap
            /\ ev' = Ev("bo_import", NULL, arg, NULL, early, <<>>)
       ELSE IF ~callocOk \/ Fresh = {}
       THEN /\ UNCHANGED heap
            /\ ev' = Ev("bo_import", NULL, arg, NULL, "ENOMEM", <<"calloc">>)
       ELSE LET b == CHOOSE x \in Fresh : TRUE
                r == CASE type = GBM_BO_IMPORT_WL_BUFFER -> gbm_kms_import_wl_buffer(buffer)
                       [] type = GBM_BO_IMPORT_FD -> gbm_kms_import_fd(buffer)
                       [] OTHER -> gbm_kms_import_fd_modifier(buffer)
            IN /\ heap' = [heap EXCEPT ![b] = r]
               /\ ev' = Ev("bo_import", b, arg, b, "none", <<"calloc">>)

\* what the Wayland resolver hands back: nothing (-1), or a descriptor with no
\* plane count, two planes, a plane count beyond MAX_PLANES
WlBuffers ==
    {[resolved |-> n >= 0,
      width |-> 1, height |-> 2, format |-> GBM_FORMAT_XRGB8888, stride |-> 2,
      handle |-> 31, num_planes |-> n,
      planes |-> [i \in 0..(MAX_PLANES - 1) |-> [handle |-> 31 + i, stride |-> 2 - (i % 2)]]] :
        n \in {-1, 0, 2, MAX_PLANES + 1}}

FdData ==
    {[fd |-> 41, width |-> 1, height |-> 2, stride |-> 2, format |-> GBM_BO_FORMAT_XRGB8888]}

\* no descriptor, one, MAX_PLANES, one too many; and MAX_PLANES descriptors
\* with a modifier other than DRM_FORMAT_MOD_INVALID
FdModifierData ==
    {[modifier |-> q[1], num_fds |-> q[2], fds |-> <<41, 42, 43, 44>>,
      strides |-> <<2, 1, 3, 1>>, width |-> 1, height |-> 2,
      format |-> GBM_BO_FORMAT_XRGB8888] :
        q \in ({"DRM_FORMAT_MOD_INVALID"} \X {0, 1, MAX_PLANES, MAX_PLANES + 1})
               \cup {<<"DRM_FORMAT_MOD_LINEAR", MAX_PLANES>>}}

BoImport ==
    \/ \E buffer \in WlBuffers :
       \E callocOk \in (IF buffer.resolved THEN BOOLEAN ELSE {TRUE}) :
          gbm_kms_bo_import(GBM_BO_IMPORT_WL_BUFFER, buffer, 0, callocOk)
    \/ \E buffer \in FdData, failAt \in {0, 1} :
       \E callocOk \in (IF failAt = 0 THEN BOOLEAN ELSE {TRUE}) :
          gbm_kms_bo_import(GBM_BO_IMPORT_FD, buffer, failAt, callocOk)
    \/ \E buffer \in FdModifierData :
       \E failAt \in (IF buffer.modifier = "DRM_FORMAT_MOD_INVALID"
                         /\ buffer.num_fds \in 1..MAX_PLANES
                      THEN 0..buffer.num_fds ELSE {0}) :
       \E callocOk \in (IF failAt = 0 /\ buffer.modifier = "DRM_FORMAT_MOD_INVALID"
                           /\ buffer.num_fds \in 1..MAX_PLANES
                        THEN BOOLEAN ELSE {TRUE}) :
          gbm_kms_bo_import(GBM_BO_IMPORT_FD_MODIFIER, buffer, failAt, callocOk)
    \/ gbm_kms_bo_import(GBM_BO_IMPORT_EGL_IMAGE, NULL, 0, TRUE)

\* ------------------------------------------------------------------ surface
gbm_kms_surface_create(width, height, format, callocOk) ==
    /\ pc = "run"
    /\ dev.st = "open"
    /\ UNCHANGED dev
    /\ surface.st = "none"
    /\ UNCHANGED <<heap, kernel, kmapped, fds, pc>>
    /\ IF ~callocOk
       THEN /\ UNCHANGED surface
            /\ ev' = Ev("surface_create", NULL, 0, NULL, "ENOMEM", <<"calloc">>)
       ELSE /\ surface' = [st |-> "live", bo |-> [n \in 0..1 |-> NULL], front |-> -1,
                           width |-> width, height |-> height, format |-> format]
            /\ ev' = Ev("surface_create", NULL, 0, 1, "none", <<"calloc">>)

\* the struct gbm_kms_surface_set_bo installs
AttachFill(addr, fd, stride) ==
    [ZeroBo EXCEPT !.width = surface.width, !.height = surface.height,
                   !.format = surface.format, !.stride = stride,
                   !.size = stride * surface.height, !.addr = addr, !.fd = fd,
                   !.num_planes = 1, !.allocated = FALSE,
                   !.mem = Zeros(stride * surface.height)]

\* does gbm_kms_surface_set_bo free the slot's pointer p before anything else
SetBoFrees(p) == p # NULL

\* gbm_kms_surface_set_bo.  free() of a slot pointer that was freed before (the
\* slot is never cleared) is a double free: the allocator aborts or does not.
gbm_kms_surface_set_bo(n, addr, fd, stride, callocOk, abort) ==
    /\ pc = "run"
    /\ dev.st = "open"
    /\ UNCHANGED dev
    /\ surface.st = "live"
    /\ UNCHANGED <<kernel, kmapped, fds>>
    /\ IF n < 0 \/ n > 1
       THEN /\ UNCHANGED <<heap, surface, pc>>
            /\ ev' = Ev("set_bo", NULL, [n |-> n, addr |-> addr, stride |-> stride], -1, "none", <<>>)
       ELSE
       LET p == surface.bo[n]
           arg == [n |-> n, addr |-> addr, stride |-> stride]
           frees == SetBoFrees(p)
           double == frees /\ heap[p].st = "freed"
           heap1 == IF frees THEN [heap EXCEPT ![p] = FreedBo] ELSE heap
           c1 == IF frees THEN <<"free">> ELSE <<>>
       IN
       IF double /\ abort
       THEN /\ UNCHANGED <<heap, surface>>
            /\ pc' = "crashed"
            /\ ev' = Ev("set_bo", NULL, arg, -1, "SIGABRT", c1)
       ELSE IF addr = NULL /\ stride = 0
       THEN /\ heap' = heap1
            /\ UNCHANGED <<surface, pc>>
            /\ ev' = Ev("set_bo", NULL, arg, 0, "none", c1)
       ELSE IF ~callocOk \/ FreshAttach = {}
       THEN /\ heap' = heap1
            /\ UNCHANGED <<surface, pc>>
            /\ ev' = Ev("set_bo", NULL, arg, -1, "ENOMEM", c1 \o <<"calloc">>)
       ELSE LET b == CHOOSE x \in FreshAttach : TRUE IN
            /\ heap' = [heap1 EXCEPT ![b] = AttachFill(addr, fd, stride)]
            /\ surface' = [surface EXCEPT !.bo[n] = b]
            /\ UNCHANGED pc
            /\ ev' = Ev("set_bo", b, arg, 0, "none", c1 \o <<"calloc">>)

\* gbm_kms_surface_destroy: on NULL it returns; else free(surface) and nothing
\* else.  The freed struct's fields are no longer defined.
gbm_kms_surface_destroy ==
    /\ pc = "run"
    /\ dev.st = "open"
    /\ surface.st \in {"none", "live"}
    /\ UNCHANGED <<heap, kernel, kmapped, fds, pc, dev>>
    /\ IF surface.st = "none"
       THEN /\ UNCHANGED surface
            /\ ev' = Ev("surface_destroy", NULL, 0, 0, "none", <<>>)
       ELSE /\ surface' = [NoSurface EXCEPT !.st = "freed"]
            /\ ev' = Ev("surface_destroy", NULL, 1, 0, "none", <<"free">>)

gbm_kms_set_front(front) ==
    /\ pc = "run"
    /\ dev.st = "open"
    /\ UNCHANGED dev
    /\ surface.st = "live"
    /\ surface' = [surface EXCEPT !.front = front]
    /\ UNCHANGED <<heap, kernel, kmapped, fds, pc>>
    /\ ev' = Ev("set_front", NULL, front, 0, "none", <<>>)

\* gbm_kms_surface_lock_front_buffer.  surface->bo[front] with front > 1 reads
\* past the array, and a NULL slot is dereferenced: the process is killed.  A
\* slot left dangling is written through (the store lands in freed memory).
gbm_kms_surface_lock_front_buffer ==
    /\ pc = "run"
    /\ dev.st = "open"
    /\ UNCHANGED dev
    /\ surface.st = "live"
    /\ UNCHANGED <<surface, kernel, kmapped, fds>>
    /\ IF surface.front >= 0
       THEN IF surface.front > 1 \/ surface.bo[surface.front] = NULL
            THEN /\ UNCHANGED heap
                 /\ pc' = "crashed"
                 /\ ev' = Ev("lock_front_buffer", NULL, 0, NULL, "SIGSEGV", <<>>)
            ELSE LET front == surface.bo[surface.front] IN
                 /\ heap' = IF heap[front].st = "live"
                            THEN [heap EXCEPT ![front].locked = 1] ELSE heap
                 /\ UNCHANGED pc
                 /\ ev' = Ev("lock_front_buffer", front, 0, front, "none", <<>>)
       ELSE /\ UNCHANGED <<heap, pc>>
            /\ ev' = Ev("lock_front_buffer", NULL, 0, NULL, "none", <<>>)

\* gbm_kms_surface_release_buffer on a BO pointer the caller holds (live, or
\* freed meanwhile: the store then lands in freed memory)
gbm_kms_surface_release_buffer(b) ==
    /\ pc = "run"
    /\ dev.st = "open"
    /\ UNCHANGED dev
    /\ surface.st = "live"
    /\ b \in Live \cup Freed
    /\ heap' = IF heap[b].st = "live" THEN [heap EXCEPT ![b].locked = 0] ELSE heap
    /\ UNCHANGED <<surface, kernel, kmapped, fds, pc>>
    /\ ev' = Ev("release_buffer", b, 0, 0, "none", <<>>)

\* surface->bo[n]->locked as gbm_kms_surface_has_free_buffers reads it: -1 when
\* the slot is NULL (the read faults), rd when the slot dangles
LockedRead(n, rd) ==
    LET p == surface.bo[n] IN
    IF p = NULL THEN -1
    ELSE IF heap[p].st = "live" THEN heap[p].locked ELSE rd

\* the result of gbm_kms_surface_has_free_buffers, -1 when it faults
HasFreeBuffers(rd0, rd1) ==
    LET l0 == LockedRead(0, rd0)
        l1 == LockedRead(1, rd1)
    IN IF l0 = -1 THEN -1
       ELSE IF l0 = 0 THEN 1
       ELSE IF l1 = -1 THEN -1
       ELSE IF l1 = 0 THEN 1 ELSE 0

gbm_kms_surface_has_free_buffers(rd0, rd1) ==
    /\ pc = "run"
    /\ dev.st = "open"
    /\ UNCHANGED dev
    /\ surface.st = "live"
    /\ UNCHANGED <<heap, surface, kernel, kmapped, fds>>
    /\ LET res == HasFreeBuffers(rd0, rd1) IN
       /\ pc' = IF res = -1 THEN "crashed" ELSE "run"
       /\ ev' = Ev("has_free_buffers", NULL, 0, res,
                   IF res = -1 THEN "SIGSEGV" ELSE "none", <<>>)

SurfaceFormats == {GBM_FORMAT_XRGB8888}
Fronts == -2..2

SurfaceCreate ==
    \E w \in Widths, h \in Heights, f \in SurfaceFormats, callocOk \in BOOLEAN :
        gbm_kms_surface_create(w, h, f, callocOk)

\* the environment's choices are drawn only where the call consults them
Dangling(n) == n \in 0..1 /\ surface.bo[n] # NULL /\ heap[surface.bo[n]].st = "freed"

SetBoIn(slots) ==
    \E n \in slots, a \in AttachArgs :
    \E callocOk \in (IF (a[1] = NULL /\ a[3] = 0) \/ n \notin 0..1 THEN {TRUE} ELSE BOOLEAN),
       abort \in (IF Dangling(n) THEN BOOLEAN ELSE {FALSE}) :
        gbm_kms_surface_set_bo(n, a[1], a[2], a[3], callocOk, abort)

SetBo == SetBoIn(-1..2)

\* a producer that attaches to slot 0 only
SetBo0 == SetBoIn({0})

\* surface creation with every format a caller can pass
SurfaceCreateAnyFormat ==
    \E w \in Widths, h \in Heights, f \in Formats :
        gbm_kms_surface_create(w, h, f, TRUE)

SurfaceDestroy == gbm_kms_surface_destroy

SetFront == \E front \in Fronts : gbm_kms_set_front(front)

LockFrontBuffer == gbm_kms_surface_lock_front_buffer

ReleaseBuffer == \E b \in AllIds : gbm_kms_surface_release_buffer(b)

HasFree == \E rd0 \in {0, 1}, rd1 \in {0, 1} : gbm_kms_surface_has_free_buffers(rd0, rd1)

\* the calls a creation with this format and usage gets to make
CreateFails(f, u) ==
    IF ~gbm_kms_is_format_supported(f, u) THEN {"none", "calloc"}
    ELSE IF Bit(u, GBM_BO_USE_WRITE) THEN FailPoints
    ELSE FailPoints \ {"kms_bo_map"}

BoCreate ==
    \E w \in Widths, h \in Heights, f \in CreateFormats, u \in Usages, p \in Pitches :
    \E fail \in CreateFails(f, u) :
        gbm_kms_bo_create(w, h, f, u, p, fail)

\* creation with every format a caller can pass
BoCreateAnyFormat ==
    \E w \in Widths, h \in Heights, f \in Formats, u \in Usages, p \in Pitches :
    \E fail \in CreateFails(f, u) :
        gbm_kms_bo_create(w, h, f, u, p, fail)

FormatSupported == \E f \in Formats, u \in Usages : IsFormatSupported(f, u)

DeviceCreate ==
    \E fd \in DisplayFds, callocOk \in BOOLEAN :
    \E kmsOk \in (IF callocOk THEN BOOLEAN ELSE {TRUE}) :
        kms_device_create(fd, callocOk, kmsOk)

DeviceDestroy == gbm_kms_destroy

GetStride == \E b \in Live, plane \in Planes : gbm_kms_bo_get_stride(b, plane)

GetOffset == \E b \in Live, plane \in Planes : gbm_kms_bo_get_offset(b, plane)

GetHandle == \E b \in Live, plane \in Planes : gbm_kms_bo_get_handle(b, plane)

\* map requests: the whole buffer, a nonzero origin, another width
MapRequests(r) == {<<0, 0, r.width, r.height>>, <<1, 0, r.width, r.height>>,
                   <<0, 0, r.width + 1, r.height>>}

BoMap ==
    \E b \in Live : \E q \in MapRequests(heap[b]) :
    \E mapOk \in (IF q[1] = 0 /\ q[3] = heap[b].width /\ heap[b].map_ref = 0
                   THEN BOOLEAN ELSE {TRUE}) :
        gbm_kms_bo_map(b, q[1], q[2], q[3], q[4], mapOk)

BoUnmap == \E b \in Live : \E m \in {NULL, heap[b].addr, 99} : gbm_kms_bo_unmap(b, m)

BoWrite == \E b \in Live : \E buf \in WriteBufs(heap[b].size) : gbm_kms_bo_write(b, buf)

BoDestroy == \E b \in {NULL} \cup Live : gbm_kms_bo_destroy(b, ZeroBo, FALSE)

\* a second destroy of a BO already destroyed
BoDestroyAgain ==
    \E b \in Freed, rd \in StaleReads, abort \in BOOLEAN : gbm_kms_bo_destroy(b, rd, abort)

\* the surface protocol: the calls a producer and a display make on a surface
Next ==
    \/ SurfaceCreate
    \/ SetBo
    \/ SetFront
    \/ LockFrontBuffer
    \/ ReleaseBuffer
    \/ HasFree
    \/ BoDestroy
    \/ SurfaceDestroy

Spec == Init /\ [][Next]_vars

\* the BO life cycle: every way a BO comes into being, and the calls on it
NextBO ==
    \/ BoCreate
    \/ BoMap
    \/ BoUnmap
    \/ BoWrite
    \/ BoDestroy
    \/ BoDestroyAgain

SpecBO == Init /\ [][NextBO]_vars

\* ownership: every kind of BO (created, imported, attached) and its destruction
NextOwn ==
    \/ BoCreate
    \/ BoImport
    \/ SurfaceCreate
    \/ SetBo0
    \/ BoDestroy

SpecOwn == Init /\ [][NextOwn]_vars

\* the device life cycle, format queries and creation with every format
NextDev ==
    \/ DeviceCreate
    \/ DeviceDestroy
    \/ FormatSupported
    \/ BoCreateAnyFormat
    \/ BoDestroy

SpecDev == InitDev /\ [][NextDev]_vars

\* planes: imported and created BOs and the plane-indexed accessors
NextPlanes ==
    \/ BoCreate
    \/ BoImport
    \/ GetStride
    \/ GetOffset
    \/ GetHandle
    \/ BoDestroy

SpecPlanes == Init /\ [][NextPlanes]_vars

\* every way a BO comes into being, and every call that acts on a live BO
NextLive ==
    \/ BoCreate
    \/ BoImport
    \/ SurfaceCreate
    \/ SetBo0
    \/ BoMap
    \/ BoUnmap

SpecLive == Init /\ [][NextLive]_vars

\* formats: every way a format gets into a BO
NextFormats ==
    \/ BoCreate
    \/ BoImport
    \/ SurfaceCreateAnyFormat
    \/ SetBo0

SpecFormats == Init /\ [][NextFormats]_vars

\* ===================================================================== claims
SlotBo(n) == surface.bo[n]

\* slot n holds a BO that is live
SlotLive(n) == SlotBo(n) # NULL /\ heap[SlotBo(n)].st = "live"

SurfaceOps == {"set_bo", "set_front", "lock_front_buffer", "release_buffer"}

\* C1: over attach, set_front, lock_front_buffer and release_buffer calls, a BO
\* whose locked flag is 1 is not freed: it is still a live struct after the call.
C1_LockedBoStaysValid ==
    [][ev'.op \in SurfaceOps =>
         \A b \in AllIds : (heap[b].st = "live" /\ heap[b].locked = 1) => heap'[b].st = "live"]_vars

\* C2: whenever has_free_buffers has been called it has returned, and it has
\* returned true exactly when one of the two slots holds a BO with locked = 0.
C2_HasFreeIffUnlockedSlot ==
    ev.op = "has_free_buffers" =>
        /\ ev.err = "none"
        /\ (ev.ret = 1) <=> (\E n \in 0..1 : SlotLive(n) /\ heap[SlotBo(n)].locked = 0)

\* both slots hold a live BO whose locked flag is 1
BothLocked == \A n \in 0..1 : SlotLive(n) /\ heap[SlotBo(n)].locked = 1

\* has_free_buffers returns false, whatever it reads
NoFreeBuffers == \A rd0 \in {0, 1}, rd1 \in {0, 1} : HasFreeBuffers(rd0, rd1) = 0

\* has_free_buffers returns true, whatever it reads
SomeFreeBuffer == \A rd0 \in {0, 1}, rd1 \in {0, 1} : HasFreeBuffers(rd0, rd1) = 1

\* C3: once both slot BOs are locked has_free_buffers returns false; it keeps
\* returning false over every call of the surface protocol that is not a
\* release_buffer; and it returns true right after a release_buffer of either
\* slot BO.
C3_Backpressure ==
    /\ [](BothLocked => NoFreeBuffers)
    /\ [][(NoFreeBuffers /\ ev'.op \in (SurfaceOps \cup {"has_free_buffers"}) \ {"release_buffer"})
            => NoFreeBuffers']_vars
    /\ [][(BothLocked /\ ev'.op = "release_buffer" /\ ev'.bo \in {SlotBo(0), SlotBo(1)})
            => SomeFreeBuffer']_vars

\* C4: lock_front_buffer returns, and returns null exactly when front = -1;
\* otherwise it returns the BO in slot front, now with locked = 1; it changes
\* neither front nor the slots; release_buffer sets the BO's locked flag to 0.
C4_LockFrontBuffer ==
    /\ [](ev.op = "lock_front_buffer" =>
            /\ ev.err = "none"
            /\ (ev.ret = NULL) <=> (surface.front = -1)
            /\ ev.ret # NULL =>
                 /\ ev.ret = SlotBo(surface.front)
                 /\ heap[ev.ret].st = "live"
                 /\ heap[ev.ret].locked = 1)
    /\ [][ev'.op = "lock_front_buffer" => surface' = surface]_vars
    /\ [][(ev'.op = "release_buffer" /\ heap[ev'.bo].st = "live")
            => heap'[ev'.bo].locked = 0]_vars

\* C5: on an owning BO, a successful map raises the count by one and returns
\* the BO's address; only the map that finds the count at 0 calls the
\* allocator, every other one leaves the address as it is.  An unmap with the
\* mapped address lowers the count by one; while the count stays above 0 the
\* address stays; the unmap that brings it to 0 calls the allocator's unmap
\* once and leaves address null and count 0.  At all times the address is
\* non-null exactly while the count is above 0.
C5_MapRefCounted ==
    /\ [](\A b \in Live : heap[b].allocated =>
            /\ heap[b].map_ref >= 0
            /\ (heap[b].addr # NULL) <=> (heap[b].map_ref > 0)
            /\ (heap[b].bo \in kmapped) <=> (heap[b].map_ref > 0))
    /\ [][(ev'.op = "bo_map" /\ ev'.err = "none" /\ heap[ev'.bo].allocated) =>
            LET r == heap[ev'.bo]
                q == heap'[ev'.bo]
            IN /\ q.map_ref = r.map_ref + 1
               /\ ev'.ret = q.addr /\ q.addr # NULL
               /\ IF r.map_ref = 0
                  THEN ev'.calls = <<"kms_bo_map">>
                  ELSE ev'.calls = <<>> /\ q.addr = r.addr]_vars
    /\ [][(ev'.op = "bo_unmap" /\ ev'.arg # NULL /\ ev'.arg = heap[ev'.bo].addr
             /\ heap[ev'.bo].allocated) =>
            LET r == heap[ev'.bo]
                q == heap'[ev'.bo]
            IN /\ q.map_ref = r.map_ref - 1
               /\ IF r.map_ref = 1
                  THEN ev'.calls = <<"kms_bo_unmap">> /\ q.addr = NULL /\ q.map_ref = 0
                  ELSE ev'.calls = <<>> /\ q.addr = r.addr /\ q.addr # NULL]_vars

\* an owning BO mapped twice has just been unmapped for the first time
C5_Witness ==
    /\ ev.op = "bo_unmap" /\ ev.arg # NULL /\ ev.calls = <<>>
    /\ heap[ev.bo].allocated /\ heap[ev.bo].map_ref = 1 /\ heap[ev.bo].addr = ev.arg

\* C6: write fails with EFAULT on a BO without a mapping, else with EINVAL when
\* length > size, and a failed write changes nothing; otherwise it returns 0
\* and the first length bytes of the region equal the data, the rest and all
\* other fields being as before.
C6_Write ==
    [][ev'.op = "bo_write" =>
         LET r == heap[ev'.bo]
             buf == ev'.arg
         IN IF r.addr = NULL
            THEN ev'.ret = -1 /\ ev'.err = "EFAULT" /\ heap' = heap
            ELSE IF Len(buf) > r.size
            THEN ev'.ret = -1 /\ ev'.err = "EINVAL" /\ heap' = heap
            ELSE /\ ev'.ret = 0 /\ ev'.err = "none"
                 /\ \A i \in 1..r.size :
                      heap'[ev'.bo].mem[i] = IF i <= Len(buf) THEN buf[i] ELSE r.mem[i]
                 /\ [heap' EXCEPT ![ev'.bo].mem = r.mem] = heap]_vars

\* a write of exactly size bytes has succeeded on a mapped BO
C6_Witness ==
    /\ ev.op = "bo_write" /\ ev.ret = 0
    /\ Len(ev.arg) = heap[ev.bo].size /\ heap[ev.bo].size > 0
    /\ heap[ev.bo].mem = ev.arg

\* C7: a create that returns null leaves the kernel buffers, the open
\* descriptors, the mappings and the heap as they were before the call; a
\* create that returns a BO has added one kernel buffer and one descriptor,
\* both owned by the BO, and one mapping exactly when write usage was asked.
C7_CreateAllOrNothing ==
    [][ev'.op = "bo_create" =>
         IF ev'.ret = NULL
         THEN kernel' = kernel /\ fds' = fds /\ kmapped' = kmapped /\ heap' = heap
         ELSE LET r == heap'[ev'.ret] IN
              /\ r.st = "live" /\ r.allocated
              /\ r.bo \notin kernel /\ kernel' = kernel \cup {r.bo}
              /\ r.fd \notin fds /\ fds' = fds \cup {r.fd}
              /\ kmapped' = IF Bit(ev'.arg.usage, GBM_BO_USE_WRITE)
                            THEN kmapped \cup {r.bo} ELSE kmapped
              /\ r.bo \notin kmapped
              /\ (r.addr # NULL) <=> Bit(ev'.arg.usage, GBM_BO_USE_WRITE)]_vars

\* a create with write usage has failed at its last step, the mapping, after
\* the kernel buffer and the descriptor had been made
C7_Witness ==
    /\ ev.op = "bo_create" /\ ev.ret = NULL
    /\ Has(ev.calls, "kms_bo_map")

\* C8: destroying a BO that does not own its memory (allocated = false, as
\* every import path and set_bo leave it) never calls kms_bo_destroy, and
\* destroying an owning BO (as a successful create leaves it) calls it exactly
\* once, on the BO's kernel buffer.
C8_KernelDestroyIffOwning ==
    /\ [][(ev'.op \in {"bo_import", "set_bo"} /\ ev'.bo # NULL) =>
            ~heap'[ev'.bo].allocated]_vars
    /\ [][(ev'.op = "bo_create" /\ ev'.bo # NULL) => heap'[ev'.bo].allocated]_vars
    /\ [][(ev'.op = "bo_destroy" /\ ev'.arg = "live") =>
            LET r == heap[ev'.bo] IN
            IF r.allocated
            THEN /\ Count(ev'.calls, "kms_bo_destroy") = 1
                 /\ r.bo \in kernel /\ kernel' = kernel \ {r.bo}
            ELSE /\ Count(ev'.calls, "kms_bo_destroy") = 0
                 /\ kernel' = kernel]_vars

\* an imported BO has been destroyed while a created BO's kernel buffer exists
C8_Witness ==
    /\ ev.op = "bo_destroy" /\ ev.arg = "live" /\ ev.calls = <<"free">>
    /\ ev.bo \in BoIds
    /\ kernel # {}

C10_DestroyIdempotent ==
    (ev.op = "bo_destroy" /\ ev.arg \in {"null", "freed"}) =>
        ev.calls = <<>> /\ pc = "run"

\* the format values a caller can pass for the two 32-bit RGB layouts: their
\* fourcc codes and their legacy aliases
SupportedInputs ==
    {GBM_FORMAT_ARGB8888, GBM_FORMAT_XRGB8888,
     GBM_BO_FORMAT_ARGB8888, GBM_BO_FORMAT_XRGB8888}

\* C11: is_format_supported(F, usage) is true exactly for the fourcc codes
\* ARGB8888 and XRGB8888 and their two legacy aliases, whatever the usage; and
\* a create in which every collaborator succeeds returns a BO exactly for
\* these formats, failing with EINVAL for every other one.
C11_FormatSupport ==
    /\ ev.op = "is_format_supported" =>
         /\ (ev.ret = 1) <=> (ev.arg.format \in SupportedInputs)
         /\ (ev.ret = 1) <=>
              (gbm_format_canonicalize(ev.arg.format)
                   \in {GBM_FORMAT_ARGB8888, GBM_FORMAT_XRGB8888})
         /\ ev.ret \in {0, 1}
         /\ \A u \in Usages :
              gbm_kms_is_format_supported(ev.arg.format, u) = (ev.ret = 1)
    /\ (ev.op = "bo_create" /\ ev.err \notin {"ENOMEM", "EKMS", "EPRIME"}) =>
         /\ (ev.ret # NULL) <=> (ev.arg.format \in SupportedInputs)
         /\ (ev.ret # NULL) <=> gbm_kms_is_format_supported(ev.arg.format, ev.arg.usage)
         /\ (ev.ret = NULL) => ev.err = "EINVAL"

\* a BO has been created from the legacy alias of ARGB8888
C11_Witness ==
    /\ ev.op = "bo_create" /\ ev.arg.format = GBM_BO_FORMAT_ARGB8888
    /\ ev.ret # NULL /\ heap[ev.ret].st = "live"

\* the last call is a multi-FD import (GBM_BO_IMPORT_FD_MODIFIER)
MultiFdImport == ev.op = "bo_import" /\ ev.arg.type = GBM_BO_IMPORT_FD_MODIFIER

\* its input is acceptable and every per-plane exchange has succeeded
MultiFdInputOk ==
    /\ ev.arg.data.modifier = "DRM_FORMAT_MOD_INVALID"
    /\ ev.arg.data.num_fds \in 1..MAX_PLANES
    /\ ev.arg.failAt = 0

\* the BO returned has one plane per descriptor, in input order
MultiFdPlanes ==
    LET r == heap[ev.ret]
        d == ev.arg.data
    IN /\ r.st = "live"
       /\ r.num_planes = d.num_fds
       /\ \A i \in 0..(d.num_fds - 1) :
            /\ r.planes[i].handle = HandleOfFd(d.fds[i + 1])
            /\ r.planes[i].stride = d.strides[i + 1]

\* C12 as claimed: a multi-FD import returns a BO if and only if the modifier
\* is DRM_FORMAT_MOD_INVALID, the count is in [1, MAX_PLANES] and every
\* exchange succeeds, and the BO then has the planes in input order.
C12_MultiFdImportIff ==
    MultiFdImport =>
        /\ (ev.ret # NULL) <=> MultiFdInputOk
        /\ (ev.ret # NULL) => MultiFdPlanes

\* C12 amended: a multi-FD import returns a BO if and only if the modifier is
\* DRM_FORMAT_MOD_INVALID, the count is in [1, MAX_PLANES], every exchange
\* succeeds and the allocation of the BO struct succeeds; the BO then has
\* num_planes equal to the count and the handles and strides in input order;
\* in every other case no BO is returned and no struct is left allocated.
C12_MultiFdImportAllOrNothing ==
    /\ [](MultiFdImport =>
            /\ (ev.ret # NULL) <=> (MultiFdInputOk /\ ev.err # "ENOMEM")
            /\ (ev.ret # NULL) => MultiFdPlanes
            /\ (ev.err = "ENOMEM") => MultiFdInputOk)
    /\ [][(ev'.op = "bo_import" /\ ev'.arg.type = GBM_BO_IMPORT_FD_MODIFIER
             /\ ev'.ret = NULL) => heap' = heap]_vars

\* three descriptors have been imported into a BO with three planes
C12_Witness ==
    /\ MultiFdImport /\ ev.arg.data.num_fds = MAX_PLANES
    /\ ev.ret # NULL /\ heap[ev.ret].num_planes = MAX_PLANES

\* stride and handle of a plane of a BO: a single-plane BO keeps them in its
\* base fields, a multi-plane BO in planes[]
PlaneStride(r, plane) == IF r.num_planes = 1 THEN r.stride ELSE r.planes[plane].stride
PlaneHandle(r, plane) == IF r.num_planes = 1 THEN r.handle ELSE r.planes[plane].handle

\* C13: get_stride, get_offset and get_handle each fail with EINVAL when plane
\* is outside [0, num_planes); for a plane inside, get_offset returns 0 and
\* get_stride and get_handle return the plane's stride and handle.
C13_PlaneAccessors ==
    ev.op \in {"get_stride", "get_offset", "get_handle"} =>
        LET r == heap[ev.bo]
            plane == ev.arg
        IN IF plane < 0 \/ plane >= r.num_planes
           THEN ev.err = "EINVAL"
           ELSE /\ ev.err = "none"
                /\ ev.ret = CASE ev.op = "get_offset" -> 0
                              [] ev.op = "get_stride" -> PlaneStride(r, plane)
                              [] ev.op = "get_handle" -> PlaneHandle(r, plane)

\* C14: set_bo on slot 0 or 1 with a null address and stride 0 frees the BO
\* that was in the slot, leaves the slot null and returns 0; the other slot
\* and front are as before.
C14_DetachEmptiesSlot ==
    [][(ev'.op = "set_bo" /\ ev'.arg.n \in 0..1
          /\ ev'.arg.addr = NULL /\ ev'.arg.stride = 0) =>
         LET n == ev'.arg.n IN
         /\ ev'.ret = 0
         /\ surface'.bo[n] = NULL
         /\ (surface.bo[n] # NULL) => heap'[surface.bo[n]].st = "freed"
         /\ surface'.bo[1 - n] = surface.bo[1 - n]
         /\ surface'.front = surface.front]_vars

\* C15: destroying a surface frees the BOs in both of its slots: no BO that a
\* slot held before the call is still allocated after it.
C15_SurfaceDestroyFreesSlots ==
    [][(ev'.op = "surface_destroy" /\ surface.st = "live") =>
         /\ surface'.st = "freed"
         /\ \A n \in 0..1 :
              (surface.bo[n] # NULL) => heap'[surface.bo[n]].st = "freed"]_vars

\* C16: the display descriptor stays open; an open device holds exactly one
\* allocator-driver instance; when no device is open (before open, after a
\* failed open, after close) no allocator-driver instance exists.
C16_DriverLivesWithDevice ==
    /\ dev.fd_open
    /\ (dev.st = "open") => dev.kms = 1
    /\ (dev.st # "open") => dev.kms = 0

\* C17: every live BO, however it was produced, has map_ref >= 0 and a
\* non-null address exactly when map_ref > 0.
C17_MappedIffCounted ==
    \A b \in Live :
        /\ heap[b].map_ref >= 0
        /\ (heap[b].addr # NULL) <=> (heap[b].map_ref > 0)

\* C18: every live BO has size = stride * height, and no call changes the
\* size, stride or height of a BO that stays live.
C18_SizeIsStrideTimesHeight ==
    /\ [](\A b \in Live : heap[b].size = heap[b].stride * heap[b].height)
    /\ [][\A b \in AllIds :
            (heap[b].st = "live" /\ heap'[b].st = "live") =>
                /\ heap'[b].size = heap[b].size
                /\ heap'[b].stride = heap[b].stride
                /\ heap'[b].height = heap[b].height]_vars

\* the two legacy plain-BO format constants
LegacyAliases == {GBM_BO_FORMAT_XRGB8888, GBM_BO_FORMAT_ARGB8888}

\* C19: no live BO, however it was produced, has a legacy alias in its format
\* field.
C19_NoAliasStored ==
    \A b \in Live : heap[b].format \notin LegacyAliases

\* C20: front of a live surface is -1, 0 or 1, and when it is 0 or 1 the slot
\* it names holds a live BO.
C20_FrontNamesLiveSlot ==
    surface.st = "live" =>
        /\ surface.front \in {-1, 0, 1}
        /\ (surface.front \in {0, 1}) => SlotLive(surface.front)

\* every slot of the surface in state s is empty or holds a BO that heap h
\* has not freed
SlotsSound(s, h) == \A n \in 0..1 : s.bo[n] = NULL \/ h[s.bo[n]].st # "freed"

\* C21: an attach call (replacement, detach or one whose allocation fails) on a
\* surface whose slots are each empty or unfreed leaves each slot empty or
\* unfreed, and the struct an attach call frees was not freed before.
C21_AttachKeepsSlotsSound ==
    [][ev'.op = "set_bo" =>
         /\ SlotsSound(surface, heap) => SlotsSound(surface', heap')
         /\ Has(ev'.calls, "free") => heap[surface.bo[ev'.arg.n]].st = "live"]_vars

\* C22: a map request with a nonzero origin or with a width or height other
\* than the BO's fails with EINVAL, and an unmap with a null pointer or one
\* that is not the BO's mapped address returns; either way the BO's count and
\* address and the allocator's mappings are as before and the allocator is not
\* called.
C22_RejectedMapUnmapNoEffect ==
    /\ [][(ev'.op = "bo_map"
             /\ (ev'.arg.x # 0 \/ ev'.arg.y # 0
                   \/ ev'.arg.width # heap[ev'.bo].width
                   \/ ev'.arg.height # heap[ev'.bo].height)) =>
            /\ ev'.ret = NULL /\ ev'.err = "EINVAL"
            /\ heap'[ev'.bo].map_ref = heap[ev'.bo].map_ref
            /\ heap'[ev'.bo].addr = heap[ev'.bo].addr
            /\ kmapped' = kmapped
            /\ ev'.calls = <<>>]_vars
    /\ [][(ev'.op = "bo_unmap"
             /\ (ev'.arg = NULL \/ ev'.arg # heap[ev'.bo].addr)) =>
            /\ heap'[ev'.bo].map_ref = heap[ev'.bo].map_ref
            /\ heap'[ev'.bo].addr = heap[ev'.bo].addr
            /\ kmapped' = kmapped
            /\ ev'.calls = <<>>]_vars

\* a mapped BO has just been asked for a mapping of another width
C22_Witness ==
    /\ ev.op = "bo_map" /\ ev.err = "EINVAL"
    /\ ev.arg.width # heap[ev.bo].width
    /\ heap[ev.bo].map_ref = 1 /\ heap[ev.bo].addr # NULL

====
